---- MODULE Spec2Model ----
(***************************************************************************)
(* Stool image browser: catalog build (get_s3_metadata), the view pipeline *)
(* of image_browser.main, and the two bulk export assemblers (zip_files,   *)
(* zip_files_parallel).                                                    *)
(*                                                                         *)
(* Text (URLs, object keys) is a sequence of one-character strings, so the *)
(* os.path / str.split parsing of the source is computed, not assumed.     *)
(***************************************************************************)
EXTENDS Integers, Sequences, FiniteSets, TLC

(***************************************************************************)
(* Text helpers: str.rfind, str.split, os.path.basename, os.path.splitext  *)
(***************************************************************************)

\* Python s.rfind(c) on 1-based positions: the last position of c, 0 if none.
RFind(s, c) ==
    LET hits == {k \in 1..Len(s) : s[k] = c}
    IN IF hits = {} THEN 0 ELSE CHOOSE k \in hits : \A j \in hits : j <= k

\* Python s.find(c): the first position of c, 0 if none.
Find(s, c) ==
    LET hits == {k \in 1..Len(s) : s[k] = c}
    IN IF hits = {} THEN 0 ELSE CHOOSE k \in hits : \A j \in hits : k <= j

\* s.split(c)[0]
SplitFirst(s, c) ==
    IF Find(s, c) = 0 THEN s ELSE SubSeq(s, 1, Find(s, c) - 1)

\* s.split(c) as a sequence of segments
RECURSIVE Split(_, _)
Split(s, c) ==
    IF Find(s, c) = 0 THEN <<s>>
    ELSE <<SubSeq(s, 1, Find(s, c) - 1)>> \o Split(SubSeq(s, Find(s, c) + 1, Len(s)), c)

\* os.path.basename(p): what follows the last "/"
basename(p) == SubSeq(p, RFind(p, "/") + 1, Len(p))

\* os.path.splitext(p): <<root, ext>>; the extension starts at the last dot of
\* the last path component, unless only dots precede it in that component.
splitext(p) ==
    LET sep == RFind(p, "/")
        dot == RFind(p, ".")
    IN IF dot > sep /\ \E k \in (sep + 1)..(dot - 1) : p[k] # "."
       THEN <<SubSeq(p, 1, dot - 1), SubSeq(p, dot, Len(p))>>
       ELSE <<p, <<>>>>

\* The characters of a text joined into one string value.
RECURSIVE Str(_)
Str(s) == IF s = <<>> THEN "" ELSE Head(s) \o Str(Tail(s))

DigitChar == <<"0", "1", "2", "3", "4", "5", "6", "7", "8", "9">>

\* The decimal digits of n >= 0, most significant first.
RECURSIVE Digits(_)
Digits(n) == IF n < 10 THEN <<DigitChar[n + 1]>>
             ELSE Digits(n \div 10) \o <<DigitChar[(n % 10) + 1]>>

RECURSIVE ZeroPad(_, _)
ZeroPad(s, w) == IF Len(s) >= w THEN s ELSE ZeroPad(<<"0">> \o s, w)

\* f'{i:04d}'
Fmt04d(i) == ZeroPad(Digits(i), 4)


(***************************************************************************)
(* Bounds and inputs of the export assemblers                              *)
(***************************************************************************)

\* The longest list of download links handed to an export.  It stays below
\* the default pool size of ThreadPoolExecutor (min(32, cpus + 4) >= 5), so
\* every task of the bulk export runs on a thread of its own.
MaxLinks == 3

\* Presigned URLs as get_s3_presigned_url returns them, by identifier.
Urls == {"u1", "u2"}

UrlText ==
    [u \in Urls |->
        IF u = "u1"
        THEN <<"h", ":", "/", "/", "s", "/", "p", "/", "a", ".", "j", "p", "g",
               "?", "X", "=", "1", ".", "5">>
        ELSE <<"h", ":", "/", "/", "s", "/", "p", "/", "b", ".", "P", "N", "G",
               "?", "X", "=", "2">>]

\* What requests.get(url) does: answers with the object, answers with an error
\* response (an expired signed URL: 403 and an XML body), or raises.
Outcomes == {"ok", "error", "raises"}

RECURSIVE SeqsUpTo(_, _)
SeqsUpTo(S, n) ==
    IF n = 0 THEN {<<>>}
    ELSE SeqsUpTo(S, n - 1) \cup
         {Append(q, x) : q \in {r \in SeqsUpTo(S, n - 1) : Len(r) = n - 1}, x \in S}

VARIABLES
    download_links,  \* the export's input: a sequence of URL identifiers
    store,           \* the object store's answer to a GET of each URL
    zip_buffer,      \* the BytesIO the archive is written to, as a sequence of slots
    zpc,             \* where the exporting function (or generator) is
    zf,              \* the ZipFile object of the exporting thread
    task,            \* bulk export: download_and_write's state, one per item
    idx,             \* progressive export: the loop's 0-based index i
    cur,             \* progressive export: the bytes the running task fetched
    yielded,         \* progressive export: the values yielded so far
    result           \* what the export returned (or yielded last), or NoArchive

exportVars == <<download_links, store, zip_buffer, zpc, zf, task, idx, cur, yielded, result>>

VARIABLES
    objects,      \* the keys of the objects the store holds under the prefix
    list_fails,   \* whether s3.list_objects_v2 raises
    preview_bad,  \* the key whose bytes cannot be fetched or decoded, or NoKey
    sign_bad,     \* the key for which generate_presigned_url raises, or NoKey
    cpc,          \* where get_s3_metadata is
    contents,     \* response['Contents']: the keys of the response page
    cidx,         \* the position of the loop over response['Contents']
    preview,      \* the loop body's preview
    download_link,\* the loop body's download_link
    data,         \* the rows appended so far
    catalog,      \* what get_s3_metadata returned
    fetch_preview \* utils.get_s3_metadata's parameter (image_browser's always fetches)

catalogVars == <<objects, list_fails, preview_bad, sign_bad, cpc, contents, cidx,
                 preview, download_link, data, catalog, fetch_preview>>

VARIABLES
    username,       \* main's argument: the session's identity
    widgets,        \* the values the sidebar widgets hold between script runs
    page_number,    \* st.session_state.page_number
    button_clicked, \* st.session_state.button_clicked
    bpc,            \* "run": a script run is pending (first run, st.rerun); "idle"
    view,           \* what the last script run rendered
    last_event      \* the kind of the user's action that started the last run

browseVars == <<username, widgets, page_number, button_clicked, bpc, view, last_event>>

VARIABLES
    page_script,    \* the script the session runs: "app" (app.py) or "report" (pages/report.py)
    session_prefix, \* st.session_state.prefix
    report_box,     \* the state of the report page's Prefix select box
    called          \* the get_s3_metadata call the last script run made, or NoCall

sessionVars == <<page_script, session_prefix, report_box, called>>

vars == <<exportVars, catalogVars, browseVars, sessionVars>>

\* The variables the export assemblers leave alone.
nonExportVars == <<catalogVars, browseVars, sessionVars>>

\* A select box remembers its value as long as it is rendered with the same options.
Unrendered == [options |-> {}, value |-> <<>>]

UnrenderedWidgets ==
    [prefix |-> [options |-> <<>>, value |-> ""],
     sort_column |-> "LastModified",
     sort_order |-> "Descending",
     start_date |-> [default |-> 0, value |-> 0],
     end_date |-> [default |-> 0, value |-> 0],
     site_name |-> Unrendered,
     gender |-> Unrendered,
     dob |-> Unrendered,
     rows |-> 5]

NoView == [branch |-> "none", count |-> 0, n_pages |-> 0, label_page |-> 0,
           slice_page |-> 0, rows |-> <<>>, download_links |-> <<>>]

\* No browser session is running.
BrowseIdle ==
    /\ username = ""
    /\ widgets = UnrenderedWidgets
    /\ page_number = 1
    /\ button_clicked = FALSE
    /\ bpc = "off"
    /\ view = NoView
    /\ last_event = "none"

\* Python's None, as the value of st.session_state.prefix
None == "None"

NoUser == <<>>

NoCall == [user |-> NoUser, prefix |-> None]

UnrenderedBox == [options |-> <<>>, default |-> None, value |-> None]

\* No session of the multipage app is being followed.
SessionIdle ==
    /\ page_script = "app"
    /\ session_prefix = None
    /\ report_box = UnrenderedBox
    /\ called = NoCall

NoKey == "-"

NoPreview == [kind |-> "none", key |-> ""]

NoLink == [href |-> "", download |-> ""]

NoCatalog == [kind |-> "unset", rows |-> <<>>]

\* get_s3_metadata is not running.
CatalogIdle ==
    /\ objects = {}
    /\ list_fails = FALSE
    /\ preview_bad = NoKey
    /\ sign_bad = NoKey
    /\ cpc = "idle"
    /\ contents = <<>>
    /\ cidx = 0
    /\ preview = NoPreview
    /\ download_link = NoLink
    /\ data = <<>>
    /\ catalog = NoCatalog
    /\ fetch_preview = TRUE

(***************************************************************************)
(* get_image_ext, download_data and the archive's entry names              *)
(***************************************************************************)

\* get_image_ext(url): basename first, then the query string is cut off.
get_image_ext(url) == splitext(SplitFirst(basename(url), "?"))[2]

\* download_data(url): response.content, whatever the response's status.
\* Enabled only when requests.get does not raise.
ObjectBytes(u) == [kind |-> "object", of |-> u, rows |-> <<>>]

ErrorBody(u) == [kind |-> "error", of |-> u, rows |-> <<>>]

NoData == [kind |-> "none", of |-> "", rows |-> <<>>]

download_data(u) == IF store[u] = "ok" THEN ObjectBytes(u) ELSE ErrorBody(u)

\* os.path.join('images', f'image_{i:04d}' + ext) for item number i of link u
EntryName(i, u) ==
    "images" \o "/" \o "image_" \o Str(Fmt04d(i)) \o Str(get_image_ext(UrlText[u]))

MetaName == "meta_table.csv"

\* main, line 249: the FileName column of the summary table handed to the export.
FileNames(links) ==
    [i \in 1..Len(links) |-> "image_" \o Str(Fmt04d(i)) \o Str(get_image_ext(UrlText[links[i]]))]

CsvData(links) == [kind |-> "csv", of |-> "", rows |-> FileNames(links)]

(***************************************************************************)
(* zipfile.ZipFile over a BytesIO.  The buffer is a sequence of slots: a   *)
(* member (local header and data), a central directory with its end        *)
(* record, or padding; a member's offset is its slot's position.           *)
(***************************************************************************)

EntrySlot(name, bytes) == [kind |-> "entry", name |-> name, data |-> bytes, list |-> <<>>]

DirSlot(filelist) == [kind |-> "dir", name |-> "", data |-> NoData, list |-> filelist]

PadSlot == [kind |-> "pad", name |-> "", data |-> NoData, list |-> <<>>]

\* No archive was returned.
NoArchive == <<[kind |-> "none", name |-> "", data |-> NoData, list |-> <<>>]>>

\* The position of the last end-of-central-directory record in the buffer, 0 if none.
LastDir(buf) ==
    LET hits == {k \in 1..Len(buf) : buf[k].kind = "dir"}
    IN IF hits = {} THEN 0 ELSE CHOOSE k \in hits : \A j \in hits : j <= k

\* fp.seek(pos); fp.write(slot): BytesIO overwrites in place, pads a gap, extends.
WriteAt(buf, pos, slot) ==
    [k \in 1..(IF pos > Len(buf) THEN pos ELSE Len(buf)) |->
        IF k = pos THEN slot ELSE IF k <= Len(buf) THEN buf[k] ELSE PadSlot]

ClosedZip == [open |-> FALSE, filelist |-> <<>>, start_dir |-> 0]

\* ZipFile(buf, 'a'): read the central directory if there is one and set to
\* overwrite it; otherwise (BadZipFile) append at the end of the buffer.
ZipOpenAppend(buf) ==
    IF LastDir(buf) = 0
    THEN [open |-> TRUE, filelist |-> <<>>, start_dir |-> Len(buf) + 1]
    ELSE [open |-> TRUE, filelist |-> buf[LastDir(buf)].list, start_dir |-> LastDir(buf)]

\* ZipFile(buf, 'w') on a fresh BytesIO
ZipOpenWrite(buf) == [open |-> TRUE, filelist |-> <<>>, start_dir |-> Len(buf) + 1]

\* writestr: the member goes to start_dir, which moves behind it
ZipWriteBuf(z, buf, name, bytes) == WriteAt(buf, z.start_dir, EntrySlot(name, bytes))

ZipWriteObj(z, name) ==
    [z EXCEPT !.filelist = Append(@, [name |-> name, offset |-> z.start_dir]),
              !.start_dir = @ + 1]

\* close: the central directory goes to start_dir and the buffer ends behind it
ZipCloseBuf(z, buf) == SubSeq(WriteAt(buf, z.start_dir, DirSlot(z.filelist)), 1, z.start_dir)

\* What a reader of the blob finds: the members the last central directory lists
ArchiveList(blob) == IF LastDir(blob) = 0 THEN <<>> ELSE blob[LastDir(blob)].list

ArchiveNames(blob) == [k \in 1..Len(ArchiveList(blob)) |-> ArchiveList(blob)[k].name]

\* ... and the bytes of member k: those of the slot at its offset
Unreadable == [kind |-> "unreadable", of |-> "", rows |-> <<>>]

ArchiveRead(blob, k) ==
    LET e == ArchiveList(blob)[k]
    IN IF e.offset <= Len(blob) /\ blob[e.offset].kind = "entry" /\ blob[e.offset].name = e.name
       THEN blob[e.offset].data ELSE Unreadable

(***************************************************************************)
(* zip_files: the bulk export.  executor.map starts download_and_write for *)
(* every item; the tasks run on pool threads and interleave at the         *)
(* boundaries of their calls on the shared zip_buffer.                     *)
(***************************************************************************)

NewTask == [pc |-> "fetch", data |-> NoData, z |-> ClosedZip]

InitBulk ==
    /\ download_links \in SeqsUpTo(Urls, MaxLinks)
    /\ store \in [Urls -> Outcomes]
    /\ zip_buffer = <<>>
    /\ zpc = "map"
    /\ zf = ClosedZip
    /\ task = [i \in 1..Len(download_links) |-> NewTask]
    /\ idx = 0
    /\ cur = NoData
    /\ yielded = <<>>
    /\ result = NoArchive
    /\ CatalogIdle
    /\ SessionIdle
    /\ BrowseIdle

\* line 37: data = download_data(link); requests.get may raise, which ends the task
BulkFetch(i) ==
    /\ zpc = "map"
    /\ task[i].pc = "fetch"
    /\ task' = [task EXCEPT ![i] =
                  IF store[download_links[i]] = "raises"
                  THEN [@ EXCEPT !.pc = "failed"]
                  ELSE [@ EXCEPT !.pc = "open", !.data = download_data(download_links[i])]]
    /\ UNCHANGED <<download_links, store, zip_buffer, zpc, zf, idx, cur, yielded, result>>
    /\ UNCHANGED nonExportVars

\* line 39: with zipfile.ZipFile(zip_buffer, 'a') as zip_file
BulkOpen(i) ==
    /\ zpc = "map"
    /\ task[i].pc = "open"
    /\ task' = [task EXCEPT ![i] = [@ EXCEPT !.pc = "write", !.z = ZipOpenAppend(zip_buffer)]]
    /\ UNCHANGED <<download_links, store, zip_buffer, zpc, zf, idx, cur, yielded, result>>
    /\ UNCHANGED nonExportVars

\* line 40: zip_file.writestr(os.path.join('images', f'image_{i:04d}' + ext), data)
BulkWrite(i) ==
    /\ zpc = "map"
    /\ task[i].pc = "write"
    /\ zip_buffer' = ZipWriteBuf(task[i].z, zip_buffer, EntryName(i, download_links[i]), task[i].data)
    /\ task' = [task EXCEPT ![i] =
                  [@ EXCEPT !.pc = "close",
                            !.z = ZipWriteObj(@, EntryName(i, download_links[i]))]]
    /\ UNCHANGED <<download_links, store, zpc, zf, idx, cur, yielded, result>>
    /\ UNCHANGED nonExportVars

\* the end of the with block of line 39: zip_file.close()
BulkClose(i) ==
    /\ zpc = "map"
    /\ task[i].pc = "close"
    /\ zip_buffer' = ZipCloseBuf(task[i].z, zip_buffer)
    /\ task' = [task EXCEPT ![i] = [@ EXCEPT !.pc = "done", !.z = ClosedZip]]
    /\ UNCHANGED <<download_links, store, zpc, zf, idx, cur, yielded, result>>
    /\ UNCHANGED nonExportVars

\* zip_files going on to the summary without waiting for the tasks.
BulkJoin_NoWait ==
    /\ zpc = "map"
    /\ zpc' = "meta_open"
    /\ UNCHANGED <<download_links, store, zip_buffer, zf, task, idx, cur, yielded, result>>
    /\ UNCHANGED nonExportVars

\* lines 42-43: list(executor.map(...)) and the executor's shutdown wait for every
\* task; a task's exception is raised again here and leaves zip_files.
BulkJoin ==
    /\ zpc = "map"
    /\ \A i \in DOMAIN task : task[i].pc \in {"done", "failed"}
    /\ zpc' = IF \E i \in DOMAIN task : task[i].pc = "failed" THEN "raised" ELSE "meta_open"
    /\ UNCHANGED <<download_links, store, zip_buffer, zf, task, idx, cur, yielded, result>>
    /\ UNCHANGED nonExportVars

\* line 45
BulkMetaOpen ==
    /\ zpc = "meta_open"
    /\ zf' = ZipOpenAppend(zip_buffer)
    /\ zpc' = "meta_write"
    /\ UNCHANGED <<download_links, store, zip_buffer, task, idx, cur, yielded, result>>
    /\ UNCHANGED nonExportVars

\* line 46: zip_file.writestr('meta_table.csv', csv_data)
BulkMetaWrite ==
    /\ zpc = "meta_write"
    /\ zip_buffer' = ZipWriteBuf(zf, zip_buffer, MetaName, CsvData(download_links))
    /\ zf' = ZipWriteObj(zf, MetaName)
    /\ zpc' = "meta_close"
    /\ UNCHANGED <<download_links, store, task, idx, cur, yielded, result>>
    /\ UNCHANGED nonExportVars

\* the end of the with block of line 45
BulkMetaClose ==
    /\ zpc = "meta_close"
    /\ zip_buffer' = ZipCloseBuf(zf, zip_buffer)
    /\ zf' = ClosedZip
    /\ zpc' = "return"
    /\ UNCHANGED <<download_links, store, task, idx, cur, yielded, result>>
    /\ UNCHANGED nonExportVars

\* line 48: return zip_buffer.getvalue()
BulkReturn ==
    /\ zpc = "return"
    /\ result' = zip_buffer
    /\ zpc' = "returned"
    /\ UNCHANGED <<download_links, store, zip_buffer, zf, task, idx, cur, yielded>>
    /\ UNCHANGED nonExportVars

NextBulk ==
    \/ \E i \in DOMAIN task : BulkFetch(i)
    \/ \E i \in DOMAIN task : BulkOpen(i)
    \/ \E i \in DOMAIN task : BulkWrite(i)
    \/ \E i \in DOMAIN task : BulkClose(i)
    \/ BulkJoin
    \/ BulkMetaOpen
    \/ BulkMetaWrite
    \/ BulkMetaClose
    \/ BulkReturn

SpecBulk == InitBulk /\ [][NextBulk]_vars

(***************************************************************************)
(* zip_files_parallel: the progressive export, a generator.  Each task is  *)
(* submitted and its result awaited before the next one is submitted, so   *)
(* one task runs at a time.                                                *)
(***************************************************************************)

\* A yielded value: a progress fraction num/den, or the archive blob.
ProgressValue(num, den) == [kind |-> "progress", num |-> num, den |-> den, blob |-> <<>>]

ArchiveValue(blob) == [kind |-> "archive", num |-> 0, den |-> 0, blob |-> blob]

\* The progress of a task that left the +1 out (mutation of TaskProgress).
TaskProgress_NoPlusOne(i, total_files) == ProgressValue(i, total_files)

\* line 39: progress = (i+1) / total_files
TaskProgress(i, total_files) == ProgressValue(i + 1, total_files)

\* line 38: the entry's name is formatted from the task's own i
ProgEntryName(i, u) == EntryName(i, u)

InitProg ==
    /\ download_links \in SeqsUpTo(Urls, MaxLinks)
    /\ store \in [Urls -> Outcomes]
    /\ zip_buffer = <<>>
    /\ zpc = "start"
    /\ zf = ClosedZip
    /\ task = <<>>
    /\ idx = 0
    /\ cur = NoData
    /\ yielded = <<>>
    /\ result = NoArchive
    /\ CatalogIdle
    /\ SessionIdle
    /\ BrowseIdle

\* lines 44-48: the first next() runs the generator to the loop
ProgStart ==
    /\ zpc = "start"
    /\ zf' = ZipOpenWrite(zip_buffer)
    /\ idx' = 0
    /\ zpc' = "loop"
    /\ UNCHANGED <<download_links, store, zip_buffer, task, cur, yielded, result>>
    /\ UNCHANGED nonExportVars

\* lines 49-50: the next (i, link) of enumerate(download_links) is submitted,
\* or the loop ends
ProgSubmit ==
    /\ zpc = "loop"
    /\ zpc' = IF idx < Len(download_links) THEN "task_fetch" ELSE "meta"
    /\ UNCHANGED <<download_links, store, zip_buffer, zf, task, idx, cur, yielded, result>>
    /\ UNCHANGED nonExportVars

\* line 36 in the task; an exception comes out of progress.result() (line 51),
\* leaves both with blocks (the ZipFile is closed) and ends the generator
ProgFetch ==
    /\ zpc = "task_fetch"
    /\ IF store[download_links[idx + 1]] = "raises"
       THEN /\ zip_buffer' = ZipCloseBuf(zf, zip_buffer)
            /\ zf' = ClosedZip
            /\ zpc' = "raised"
            /\ cur' = cur
       ELSE /\ cur' = download_data(download_links[idx + 1])
            /\ zpc' = "task_write"
            /\ UNCHANGED <<zip_buffer, zf>>
    /\ UNCHANGED <<download_links, store, task, idx, yielded, result>>
    /\ UNCHANGED nonExportVars

\* lines 37-38: zip_file.writestr(os.path.join('images', f'image_{i:04d}' + ext), data)
ProgWrite ==
    /\ zpc = "task_write"
    /\ zip_buffer' = ZipWriteBuf(zf, zip_buffer, ProgEntryName(idx, download_links[idx + 1]), cur)
    /\ zf' = ZipWriteObj(zf, ProgEntryName(idx, download_links[idx + 1]))
    /\ zpc' = "yield"
    /\ UNCHANGED <<download_links, store, task, idx, cur, yielded, result>>
    /\ UNCHANGED nonExportVars

\* lines 39-40 and 51: yield progress.result()
ProgYield ==
    /\ zpc = "yield"
    /\ yielded' = Append(yielded, TaskProgress(idx, Len(download_links)))
    /\ idx' = idx + 1
    /\ zpc' = "loop"
    /\ UNCHANGED <<download_links, store, zip_buffer, zf, task, cur, result>>
    /\ UNCHANGED nonExportVars

\* line 53: zip_file.writestr('meta_table.csv', csv_data)
ProgMeta ==
    /\ zpc = "meta"
    /\ zip_buffer' = ZipWriteBuf(zf, zip_buffer, MetaName, CsvData(download_links))
    /\ zf' = ZipWriteObj(zf, MetaName)
    /\ zpc' = "close"
    /\ UNCHANGED <<download_links, store, task, idx, cur, yielded, result>>
    /\ UNCHANGED nonExportVars

\* the end of the with block of line 47
ProgClose ==
    /\ zpc = "close"
    /\ zip_buffer' = ZipCloseBuf(zf, zip_buffer)
    /\ zf' = ClosedZip
    /\ zpc' = "yield_archive"
    /\ UNCHANGED <<download_links, store, task, idx, cur, yielded, result>>
    /\ UNCHANGED nonExportVars

\* line 54: yield zip_buffer.getvalue(); the generator is then exhausted
ProgYieldArchive ==
    /\ zpc = "yield_archive"
    /\ yielded' = Append(yielded, ArchiveValue(zip_buffer))
    /\ result' = zip_buffer
    /\ zpc' = "exhausted"
    /\ UNCHANGED <<download_links, store, zip_buffer, zf, task, idx, cur>>
    /\ UNCHANGED nonExportVars

NextProg ==
    \/ ProgStart
    \/ ProgSubmit
    \/ ProgFetch
    \/ ProgWrite
    \/ ProgYield
    \/ ProgMeta
    \/ ProgClose
    \/ ProgYieldArchive

SpecProg == InitProg /\ [][NextProg]_vars

(***************************************************************************)
(* Properties of the export assemblers                                     *)
(***************************************************************************)

NLinks == Len(download_links)

\* The archive's member names as a set.
NameSet(blob) == {ArchiveNames(blob)[k] : k \in 1..Len(ArchiveNames(blob))}

\* images/image_0001.<ext> ... images/image_{N:04d}.<ext>, 1-indexed
ExpectedImageNames == {EntryName(i, download_links[i]) : i \in 1..NLinks}

\* C1: a finished archive holds exactly the N image entries
\* images/image_0001.<ext> .. images/image_{N:04d}.<ext> (1-indexed, extension of
\* the i-th link) and exactly one meta_table.csv entry, and nothing else.
C1_ExactEntries ==
    result # NoArchive =>
        /\ Len(ArchiveNames(result)) = NLinks + 1
        /\ NameSet(result) = ExpectedImageNames \cup {MetaName}

\* C2: in the bulk export no two worker threads have an archive writer open on
\* the shared zip_buffer at the same time, and a returned archive lists the
\* entry of every item (none was lost to another thread's write).
C2_WritesSerialized ==
    /\ \A i, j \in DOMAIN task : (i # j /\ task[i].z.open) => ~task[j].z.open
    /\ zpc = "returned" => ExpectedImageNames \subseteq NameSet(result)

\* C3: an archive is returned only if every fetch answered with the object,
\* and then every image entry holds the bytes of its source object.
C3_FetchFailureAborts ==
    result # NoArchive =>
        /\ \A i \in 1..NLinks : store[download_links[i]] = "ok"
        /\ \A k \in 1..Len(ArchiveList(result)) :
              ArchiveNames(result)[k] # MetaName =>
                  \E i \in 1..NLinks : ArchiveRead(result, k) = ObjectBytes(download_links[i])

IsOne(v) == v.kind = "progress" /\ v.num = v.den /\ v.den > 0

\* a/b <= c/d for positive denominators
FractionLeq(v, w) == v.num * w.den <= w.num * v.den

\* The image members written to the buffer so far.
ImagesWritten == Cardinality({k \in 1..Len(zip_buffer) :
                                zip_buffer[k].kind = "entry" /\ zip_buffer[k].name # MetaName})

\* C4 as stated: the exhausted generator has yielded the progress fractions
\* completed/total, non-decreasing, then exactly one archive, which is last, and
\* the value 1.0 was yielded before the archive.
C4_ProgressReachesOne ==
    zpc = "exhausted" =>
        /\ Len(yielded) = NLinks + 1
        /\ yielded[Len(yielded)].kind = "archive"
        /\ \A k \in 1..NLinks : yielded[k] = ProgressValue(k, NLinks)
        /\ \E k \in 1..(Len(yielded) - 1) : IsOne(yielded[k])

\* C4 amended: every progress value yielded is the k-th, equals k/N with k the
\* number of fetches completed and written, and the values are non-decreasing;
\* the archive is yielded once, last, after all N progress values; for N >= 1
\* the value before the archive is 1.0 (for N = 0 the archive is the only value).
C4_ProgressThenArchive ==
    /\ \A k \in 1..Len(yielded) :
          /\ yielded[k].kind = "archive" => (k = Len(yielded) /\ k = NLinks + 1 /\ zpc = "exhausted")
          /\ yielded[k].kind = "progress" => (yielded[k].num = k /\ yielded[k].den = NLinks)
          /\ \A j \in 1..k : (yielded[j].kind = "progress" /\ yielded[k].kind = "progress")
                                => FractionLeq(yielded[j], yielded[k])
    /\ (zpc = "loop" /\ yielded # <<>>) => yielded[Len(yielded)].num = ImagesWritten
    /\ zpc = "exhausted" =>
          /\ Len(yielded) = NLinks + 1
          /\ yielded[Len(yielded)] = ArchiveValue(result)
          /\ NLinks >= 1 => IsOne(yielded[NLinks])

\* An export of two or more links has run to its end.
C4_Witness == zpc = "exhausted" /\ NLinks >= 2 /\ IsOne(yielded[NLinks])

(***************************************************************************)
(* get_s3_metadata: the catalog build                                      *)
(***************************************************************************)

\* No export is running.
ExportIdle ==
    /\ download_links = <<>>
    /\ store = [u \in Urls |-> "ok"]
    /\ zip_buffer = <<>>
    /\ zpc = "idle"
    /\ zf = ClosedZip
    /\ task = <<>>
    /\ idx = 0
    /\ cur = NoData
    /\ yielded = <<>>
    /\ result = NoArchive

\* The most objects the store holds under the prefix.
MaxObjects == 3

\* The most keys one list_objects_v2 response carries (1000 at the real store).
StorePageSize == 2

Keys == {"k_plain", "k_lang", "k_tiff", "k_short", "k_feb30", "k_7dig", "k_notes"}

KeyText ==
    [k \in Keys |->
        IF k = "k_plain" THEN \* p/IMG_A_19900115_F_20240501_101530.jpg
             <<"p", "/", "I", "M", "G", "_", "A", "_", "1", "9", "9", "0", "0", "1",
               "1", "5", "_", "F", "_", "2", "0", "2", "4", "0", "5", "0", "1", "_",
               "1", "0", "1", "5", "3", "0", ".", "j", "p", "g">>
        ELSE IF k = "k_lang" THEN \* p/IMG_B_19851231_M_20240502_111500_EN.PNG
             <<"p", "/", "I", "M", "G", "_", "B", "_", "1", "9", "8", "5", "1", "2",
               "3", "1", "_", "M", "_", "2", "0", "2", "4", "0", "5", "0", "2", "_",
               "1", "1", "1", "5", "0", "0", "_", "E", "N", ".", "P", "N", "G">>
        ELSE IF k = "k_short" THEN \* p/IMG_A_19900115_F.jpg
             <<"p", "/", "I", "M", "G", "_", "A", "_", "1", "9", "9", "0", "0", "1",
               "1", "5", "_", "F", ".", "j", "p", "g">>
        ELSE IF k = "k_feb30" THEN \* p/IMG_A_19900230_F_20240501_101530.jpg
             <<"p", "/", "I", "M", "G", "_", "A", "_", "1", "9", "9", "0", "0", "2",
               "3", "0", "_", "F", "_", "2", "0", "2", "4", "0", "5", "0", "1", "_",
               "1", "0", "1", "5", "3", "0", ".", "j", "p", "g">>
        ELSE IF k = "k_7dig" THEN \* p/IMG_A_1990115_F_20240501_101530.jpg
             <<"p", "/", "I", "M", "G", "_", "A", "_", "1", "9", "9", "0", "1", "1",
               "5", "_", "F", "_", "2", "0", "2", "4", "0", "5", "0", "1", "_", "1",
               "0", "1", "5", "3", "0", ".", "j", "p", "g">>
        ELSE IF k = "k_tiff" THEN \* p/IMG__20000229_M_20240503_090000.tiff
             <<"p", "/", "I", "M", "G", "_", "_", "2", "0", "0", "0", "0", "2", "2",
               "9", "_", "M", "_", "2", "0", "2", "4", "0", "5", "0", "3", "_", "0",
               "9", "0", "0", "0", "0", ".", "t", "i", "f", "f">>
        ELSE \* p/notes.txt
             <<"p", "/", "n", "o", "t", "e", "s", ".", "t", "x", "t">>]

\* The store lists keys in their binary order.
KeyOrder == <<"k_short", "k_plain", "k_feb30", "k_7dig", "k_lang", "k_tiff", "k_notes">>

\* obj['LastModified'], as a day number
LastModifiedOf ==
    [k \in Keys |-> IF k \in {"k_plain", "k_short"} THEN 1 ELSE IF k = "k_lang" THEN 2 ELSE 3]

RECURSIVE SelectKeys(_, _)
SelectKeys(order, S) ==
    IF order = <<>> THEN <<>>
    ELSE (IF Head(order) \in S THEN <<Head(order)>> ELSE <<>>) \o SelectKeys(Tail(order), S)

\* The keys of the whole listing, and those of its first response page.
Listing(S) == SelectKeys(KeyOrder, S)

FirstPage(S) ==
    SubSeq(Listing(S), 1, IF Len(Listing(S)) < StorePageSize THEN Len(Listing(S)) ELSE StorePageSize)

UpperChars == <<"A", "B", "E", "F", "G", "I", "J", "M", "N", "P">>

LowerChars == <<"a", "b", "e", "f", "g", "i", "j", "m", "n", "p">>

\* str.lower, character by character
LowerChar(c) ==
    IF \E k \in 1..Len(UpperChars) : UpperChars[k] = c
    THEN LowerChars[CHOOSE k \in 1..Len(UpperChars) : UpperChars[k] = c]
    ELSE c

Lower(s) == [k \in 1..Len(s) |-> LowerChar(s[k])]

ImageExtensions == {".jpg", ".jpeg", ".png", ".bmp", ".gif", ".tiff"}

\* is_image_file(file_name)
is_image_file(file_name) == Str(Lower(splitext(file_name)[2])) \in ImageExtensions

\* "_".join(segs)
RECURSIVE JoinUnderscore(_)
JoinUnderscore(segs) ==
    IF segs = <<>> THEN <<>>
    ELSE IF Len(segs) = 1 THEN segs[1]
    ELSE segs[1] \o <<"_">> \o JoinUnderscore(Tail(segs))

(***************************************************************************)
(* datetime.strptime(dob, '%Y%m%d').  The format compiles to the regular   *)
(* expression \d\d\d\d (1[0-2]|0[1-9]|[1-9]) (3[01]|[12]\d|0[1-9]|[1-9]|   *)
(* [1-9]) matched at the start of the text with backtracking; text left    *)
(* over, or a day the month does not have, raises ValueError.              *)
(***************************************************************************)

IsDigit(c) == \E k \in 1..10 : DigitChar[k] = c

DigitVal(c) == (CHOOSE k \in 1..10 : DigitChar[k] = c) - 1

At(s, k) == IF k >= 1 /\ k <= Len(s) THEN s[k] ELSE ""

\* the length of the month's first two-character alternative at pos, 0 if none
Month2(s, pos) ==
    \/ At(s, pos) = "1" /\ At(s, pos + 1) \in {"0", "1", "2"}
    \/ At(s, pos) = "0" /\ IsDigit(At(s, pos + 1)) /\ At(s, pos + 1) # "0"

Month1(s, pos) == IsDigit(At(s, pos)) /\ At(s, pos) # "0"

Day2(s, pos) ==
    \/ At(s, pos) = "3" /\ At(s, pos + 1) \in {"0", "1"}
    \/ At(s, pos) \in {"1", "2"} /\ IsDigit(At(s, pos + 1))
    \/ At(s, pos) = "0" /\ IsDigit(At(s, pos + 1)) /\ At(s, pos + 1) # "0"

Day1(s, pos) == IsDigit(At(s, pos)) /\ At(s, pos) # "0"

DaySp(s, pos) == At(s, pos) = " " /\ IsDigit(At(s, pos + 1)) /\ At(s, pos + 1) # "0"

DayLen(s, pos) == IF Day2(s, pos) THEN 2 ELSE IF Day1(s, pos) THEN 1 ELSE IF DaySp(s, pos) THEN 2 ELSE 0

MonthLen(s, pos) ==
    IF Month2(s, pos) /\ DayLen(s, pos + 2) > 0 THEN 2
    ELSE IF Month1(s, pos) /\ DayLen(s, pos + 1) > 0 THEN 1
    ELSE 0

\* the number the digits of s[from..to] write (a blank counts as nothing)
RECURSIVE NumberAt(_, _, _)
NumberAt(s, from, to) ==
    IF from > to THEN 0
    ELSE IF s[to] = " " THEN NumberAt(s, from, to - 1)
    ELSE 10 * NumberAt(s, from, to - 1) + DigitVal(s[to])

IsLeap(y) == (y % 4 = 0 /\ y % 100 # 0) \/ y % 400 = 0

DaysInMonth(y, m) ==
    IF m = 2 THEN (IF IsLeap(y) THEN 29 ELSE 28)
    ELSE IF m \in {4, 6, 9, 11} THEN 30 ELSE 31

BadDate == [ok |-> FALSE, y |-> 0, m |-> 0, d |-> 0]

strptime_Ymd(s) ==
    IF ~(\A k \in 1..4 : IsDigit(At(s, k))) \/ MonthLen(s, 5) = 0 THEN BadDate
    ELSE LET ml == MonthLen(s, 5)
             dl == DayLen(s, 5 + ml)
             y == NumberAt(s, 1, 4)
             m == NumberAt(s, 5, 4 + ml)
             d == NumberAt(s, 5 + ml, 4 + ml + dl)
         IN IF 4 + ml + dl # Len(s) THEN BadDate
            ELSE IF y < 1 \/ d > DaysInMonth(y, m) THEN BadDate
            ELSE [ok |-> TRUE, y |-> y, m |-> m, d |-> d]

(***************************************************************************)
(* The steps of get_s3_metadata                                            *)
(***************************************************************************)

\* generate_presigned_url's URL for a key
PresignedUrl(k) == <<"h", ":", "/", "/", "s", "/">> \o KeyText[k] \o <<"?", "X", "=", "1">>

\* get_s3_download_link, lines 125-127: the underscore segments of the URL's base name
LinkName(k) == splitext(basename(SplitFirst(PresignedUrl(k), "?")))

LinkSegments(k) == Split(LinkName(k)[1], "_")

\* lines 128-138: outfile
Outfile(k) ==
    LET seg == LinkSegments(k)
    IN JoinUnderscore(<<seg[1]>> \o (IF seg[2] # <<>> THEN <<seg[2]>> ELSE <<>>)
                      \o SubSeq(seg, 3, Len(seg))) \o LinkName(k)[2]

\* get_s3_download_link raises: get_s3_presigned_url returned None (line 125), or
\* the base name has fewer than six segments (line 127)
download_link_raises(k) == sign_bad = k \/ Len(LinkSegments(k)) < 6

get_s3_download_link(k) == [href |-> Str(PresignedUrl(k)), download |-> Str(Outfile(k))]

\* lines 97-98: the segments of the key's base name
KeySegments(k) == Split(splitext(basename(KeyText[k]))[1], "_")

\* lines 98 and 105 raise ValueError: too few segments to unpack, or strptime fails
parse_raises(k) == Len(KeySegments(k)) < 6 \/ ~strptime_Ymd(KeySegments(k)[3]).ok

\* lines 98-105: the row of a key
RowOf(k, pv, dl) ==
    LET seg == KeySegments(k)
    IN [SiteName |-> Str(seg[2]),
        Gender |-> Str(seg[4]),
        DoB |-> strptime_Ymd(seg[3]),
        LastModified |-> LastModifiedOf[k],
        Language |-> IF Len(seg) > 6 THEN Str(seg[7]) ELSE "N/A",
        Preview |-> pv,
        Download |-> dl]

InitCatalog ==
    /\ objects \in {S \in SUBSET Keys : Cardinality(S) <= MaxObjects}
    /\ list_fails \in BOOLEAN
    /\ preview_bad \in objects \cup {NoKey}
    /\ sign_bad \in objects \cup {NoKey}
    /\ fetch_preview \in BOOLEAN
    /\ cpc = "start"
    /\ contents = <<>>
    /\ cidx = 0
    /\ preview = NoPreview
    /\ download_link = NoLink
    /\ data = <<>>
    /\ catalog = NoCatalog
    /\ ExportIdle
    /\ BrowseIdle
    /\ SessionIdle

\* lines 85-91: one list_objects_v2 call; no 'Contents' returns None
CatList ==
    /\ cpc = "start"
    /\ IF list_fails
       THEN cpc' = "raised" /\ UNCHANGED <<contents, cidx, catalog>>
       ELSE IF FirstPage(objects) = <<>>
       THEN cpc' = "returned" /\ catalog' = [kind |-> "none", rows |-> <<>>]
            /\ UNCHANGED <<contents, cidx>>
       ELSE cpc' = "loop" /\ contents' = FirstPage(objects) /\ cidx' = 1
            /\ UNCHANGED catalog
    /\ UNCHANGED <<objects, list_fails, preview_bad, sign_bad, preview, download_link,
                   data, fetch_preview>>
    /\ UNCHANGED <<exportVars, browseVars, sessionVars>>

\* lines 91-94: an object that is no image file is passed over
CatSkip ==
    /\ cpc = "loop"
    /\ cidx <= Len(contents)
    /\ ~is_image_file(KeyText[contents[cidx]])
    /\ cidx' = cidx + 1
    /\ UNCHANGED <<objects, list_fails, preview_bad, sign_bad, cpc, contents, preview,
                   download_link, data, catalog, fetch_preview>>
    /\ UNCHANGED <<exportVars, browseVars, sessionVars>>

\* line 95 (utils.py 101-104): preview = get_s3_image_preview(bucket, name), which
\* raises when the object cannot be fetched or decoded
CatPreview ==
    /\ cpc = "loop"
    /\ cidx <= Len(contents)
    /\ is_image_file(KeyText[contents[cidx]])
    /\ IF fetch_preview /\ preview_bad = contents[cidx]
       THEN cpc' = "raised" /\ UNCHANGED preview
       ELSE /\ cpc' = "link"
            /\ preview' = IF fetch_preview THEN [kind |-> "img", key |-> contents[cidx]]
                          ELSE NoPreview
    /\ UNCHANGED <<objects, list_fails, preview_bad, sign_bad, contents, cidx,
                   download_link, data, catalog, fetch_preview>>
    /\ UNCHANGED <<exportVars, browseVars, sessionVars>>

\* line 96: download_link = get_s3_download_link(bucket, name)
CatLink ==
    /\ cpc = "link"
    /\ IF download_link_raises(contents[cidx])
       THEN cpc' = "raised" /\ UNCHANGED download_link
       ELSE cpc' = "parse" /\ download_link' = get_s3_download_link(contents[cidx])
    /\ UNCHANGED <<objects, list_fails, preview_bad, sign_bad, contents, cidx,
                   preview, data, catalog, fetch_preview>>
    /\ UNCHANGED <<exportVars, browseVars, sessionVars>>

\* lines 97-105: parse the base name and append the row
CatParse ==
    /\ cpc = "parse"
    /\ IF parse_raises(contents[cidx])
       THEN cpc' = "raised" /\ UNCHANGED <<data, cidx>>
       ELSE /\ data' = Append(data, RowOf(contents[cidx], preview, download_link))
            /\ cidx' = cidx + 1
            /\ cpc' = "loop"
    /\ UNCHANGED <<objects, list_fails, preview_bad, sign_bad, contents,
                   preview, download_link, catalog, fetch_preview>>
    /\ UNCHANGED <<exportVars, browseVars, sessionVars>>

\* line 107: return pd.DataFrame(data)
CatReturn ==
    /\ cpc = "loop"
    /\ cidx > Len(contents)
    /\ catalog' = [kind |-> "frame", rows |-> data]
    /\ cpc' = "returned"
    /\ UNCHANGED <<objects, list_fails, preview_bad, sign_bad, contents, cidx,
                   preview, download_link, data, fetch_preview>>
    /\ UNCHANGED <<exportVars, browseVars, sessionVars>>

NextCatalog ==
    \/ CatList
    \/ CatSkip
    \/ CatPreview
    \/ CatLink
    \/ CatParse
    \/ CatReturn

SpecCatalog == InitCatalog /\ [][NextCatalog]_vars

(***************************************************************************)
(* Properties of the catalog build                                         *)
(***************************************************************************)

ImageObjects == {k \in objects : is_image_file(KeyText[k])}

\* A date-of-birth segment that is exactly 8 digits forming a calendar date.
WellFormedDob(seg) ==
    /\ Len(seg) = 8
    /\ \A k \in 1..8 : IsDigit(seg[k])
    /\ NumberAt(seg, 1, 4) >= 1
    /\ NumberAt(seg, 5, 6) \in 1..12
    /\ NumberAt(seg, 7, 8) \in 1..DaysInMonth(NumberAt(seg, 1, 4), NumberAt(seg, 5, 6))

\* An image key with a malformed filename.
Malformed(k) ==
    /\ is_image_file(KeyText[k])
    /\ Len(KeySegments(k)) < 6 \/ ~WellFormedDob(KeySegments(k)[3])

\* The keys the catalog has a row for.
CatalogKeys == {k \in Keys : \E r \in 1..Len(catalog.rows) :
                                catalog.rows[r].Download.href = Str(PresignedUrl(k))}

NoFaults == ~list_fails /\ preview_bad = NoKey /\ sign_bad = NoKey

OnePage == Cardinality(objects) <= StorePageSize

\* C8: a listing mixing valid, malformed and non-image keys is built without
\* raising, and the catalog's size is input count - malformed - non-image.
C8_MalformedSkipped ==
    (NoFaults /\ OnePage) =>
        /\ cpc # "raised"
        /\ (cpc = "returned" /\ catalog.kind = "frame") =>
              Len(catalog.rows) = Cardinality(objects)
                                  - Cardinality({k \in objects : Malformed(k)})
                                  - Cardinality(objects \ ImageObjects)

\* C9: the returned catalog has a record for every image object under the
\* prefix, whatever the number of response pages the listing spans.
C9_AllPagesListed ==
    (cpc = "returned" /\ \A k \in objects : ~Malformed(k)) =>
        /\ catalog.kind = "frame" => ImageObjects \subseteq CatalogKeys
        /\ catalog.kind = "none" => objects = {}

\* C10: when the thumbnail or the download link of one object cannot be derived,
\* the build does not abort and returns the records of all other image objects.
C10_EnrichmentFailureTolerated ==
    (~list_fails /\ OnePage /\ \A k \in objects : ~Malformed(k)) =>
        /\ cpc # "raised"
        /\ cpc = "returned" => (ImageObjects \ {preview_bad, sign_bad}) \subseteq CatalogKeys

(***************************************************************************)
(* image_browser.main: the view pipeline.  The catalog of a prefix is what *)
(* get_s3_metadata returns for it; a timestamp is its day number in the    *)
(* selected time zone.                                                     *)
(***************************************************************************)

\* st.slider('Rows', 5, 50, value=5, step=5)
RowsMin == 5

RowsMax == 50

RowsStep == 5

\* The largest page size the model's user picks on the slider.
MaxRowsPicked == 10

\* pd.to_datetime('today'), the default of the end date, as a day number
Today == 3

GuestFolder == "Calprotectin_Fecal_Test"

\* get_folder_list(bucket): the bucket's top-level prefixes.  The last one's
\* objects are gone by the time it is listed again (no 'Contents').
AllFolders == <<"Calprotectin_Fecal_Test/", "Study_B/", "Empty/">>

Usernames == {<<"g", "u", "e", "s", "t", "1">>, <<"k", "i", "m">>}

\* needle in hay, for texts
Contains(hay, needle) ==
    \E k \in 0..(Len(hay) - Len(needle)) : SubSeq(hay, k + 1, k + Len(needle)) = needle

\* The folder list without the guest check.
FolderList_NoGuestCheck(user) == AllFolders

\* lines 150-153
FolderList(user) ==
    IF Contains(user, <<"g", "u", "e", "s", "t">>) THEN <<GuestFolder>> ELSE AllFolders

RowIds(pfx) ==
    IF pfx \in {"Calprotectin_Fecal_Test", "Calprotectin_Fecal_Test/"} THEN 1..12
    ELSE IF pfx = "Study_B/" THEN 13..15
    ELSE {}

\* The fields of the catalog's rows, by row identifier.
RowSite(i) == IF i > 12 THEN <<"C">> ELSE IF i % 3 = 0 THEN <<"A", "B">> ELSE <<"A">>

RowGender(i) == IF i % 2 = 0 THEN <<"M">> ELSE <<"F">>

RowDoB(i) == IF i % 4 = 0 THEN [y |-> 1985, m |-> 12, d |-> 31] ELSE [y |-> 1990, m |-> 1, d |-> 15]

RowDay(i) == IF i <= 5 THEN 1 ELSE IF i <= 10 THEN 2 ELSE IF i = 13 THEN 2 ELSE 3

\* get_s3_metadata(bucket, prefix) as main sees it: None, or the rows in listing order
RECURSIVE Ascending(_, _)
Ascending(lo, hi) == IF lo > hi THEN <<>> ELSE <<lo>> \o Ascending(lo + 1, hi)

CatalogOf(pfx) ==
    IF RowIds(pfx) = {} THEN [kind |-> "none", rows |-> <<>>]
    ELSE LET lo == CHOOSE i \in RowIds(pfx) : \A j \in RowIds(pfx) : i <= j
             hi == CHOOSE i \in RowIds(pfx) : \A j \in RowIds(pfx) : j <= i
         IN [kind |-> "frame", rows |-> Ascending(lo, hi)]

\* astype(str) of a DoB: YYYY-MM-DD
DobText(date) ==
    ZeroPad(Digits(date.y), 4) \o <<"-">> \o ZeroPad(Digits(date.m), 2) \o <<"-">>
    \o ZeroPad(Digits(date.d), 2)

AllRowIds == 1..15

\* The columns of the catalogs, by row identifier: LastModified (a day number),
\* DoB as a number that orders like the date, and the texts the filters match.
LastModifiedColumn == [i \in AllRowIds |-> RowDay(i)]

DobColumn == [i \in AllRowIds |-> RowDoB(i).y * 10000 + RowDoB(i).m * 100 + RowDoB(i).d]

SiteText == [i \in AllRowIds |-> RowSite(i)]

GenderText == [i \in AllRowIds |-> RowGender(i)]

DobTextColumn == [i \in AllRowIds |-> DobText(RowDoB(i))]

\* The value a column sorts by.
SortKey(column, i) == IF column = "LastModified" THEN LastModifiedColumn[i] ELSE DobColumn[i]

RECURSIVE Reverse(_)
Reverse(q) == IF q = <<>> THEN <<>> ELSE Reverse(Tail(q)) \o <<Head(q)>>

\* x put into the ascending q behind the elements that are not greater (stable)
RECURSIVE InsertSorted(_, _, _)
InsertSorted(q, x, column) ==
    IF q = <<>> THEN <<x>>
    ELSE IF SortKey(column, Head(q)) <= SortKey(column, x)
         THEN <<Head(q)>> \o InsertSorted(Tail(q), x, column)
         ELSE <<x>> \o q

RECURSIVE ArgSort(_, _)
ArgSort(q, column) ==
    IF q = <<>> THEN <<>>
    ELSE InsertSorted(ArgSort(SubSeq(q, 1, Len(q) - 1), column), q[Len(q)], column)

\* lines 185-189: df.sort_values(by=sort_column, ascending=...): an argsort of the
\* column, and for descending order an argsort of the reversed column, reversed
sort_values(q, column, order) ==
    IF order = "Ascending" THEN ArgSort(q, column)
    ELSE Reverse(ArgSort(Reverse(q), column))

\* line 202: the rows whose LastModified lies in the date range, both ends included
DateFilter(q, start, end) ==
    SelectSeq(q, LAMBDA i : start <= LastModifiedColumn[i] /\ LastModifiedColumn[i] <= end)

Sentinel == <<"-">>

\* lines 211-224: a filter's options, and the rows whose field contains the choice
SiteOptions(q) == {Sentinel} \cup {SiteText[q[k]] : k \in 1..Len(q)}

GenderOptions(q) == {Sentinel} \cup {GenderText[q[k]] : k \in 1..Len(q)}

DobOptions(q) == {Sentinel} \cup {DobTextColumn[q[k]] : k \in 1..Len(q)}

SiteFilter(q, choice) ==
    IF choice = Sentinel THEN q ELSE SelectSeq(q, LAMBDA i : Contains(SiteText[i], choice))

GenderFilter(q, choice) ==
    IF choice = Sentinel THEN q ELSE SelectSeq(q, LAMBDA i : Contains(GenderText[i], choice))

DobFilter(q, choice) ==
    IF choice = Sentinel THEN q ELSE SelectSeq(q, LAMBDA i : Contains(DobTextColumn[i], choice))

\* A select box rendered with these options: its value is kept if the options are
\* the ones it was last rendered with, and is the first option (the sentinel) otherwise.
Selectbox(w, options) ==
    IF w.options = options THEN w ELSE [options |-> options, value |-> Sentinel]

\* st.date_input(label, value=default): likewise for a date input and its default
DateInput(w, default) ==
    IF w.default = default THEN w ELSE [default |-> default, value |-> default]

\* the prefix select box: st.selectbox("Prefix", folder_list), first folder by default
PrefixBox(w, folders) ==
    IF w.options = folders THEN w ELSE [options |-> folders, value |-> folders[1]]

Max(a, b) == IF a >= b THEN a ELSE b

Min(a, b) == IF a <= b THEN a ELSE b

\* lines 234-236
CountPages(count, items_per_page) ==
    Max(0, count \div items_per_page) + (IF count % items_per_page > 0 THEN 1 ELSE 0)

\* line 238: the branch that renders 'No data to display.'
NoDataBranch(n_pages, count) == n_pages = 1 /\ count = 0

\* lines 272-275: df_filter.iloc[start_index:end_index]
PageSlice(q, page, items_per_page) ==
    SubSeq(q, Min(items_per_page * (page - 1), Len(q)) + 1,
              Min(items_per_page * (page - 1) + items_per_page, Len(q)))

\* lines 264-270: the page number after the buttons' handlers; click is the
\* button pressed in this run, if any
AfterButtons(page, click, n_pages) ==
    IF click = "prev" /\ page > 1 THEN page - 1
    ELSE IF click = "next" /\ page < n_pages THEN page + 1
    ELSE page

(***************************************************************************)
(* One run of the script (main, top to bottom) and the user's actions,     *)
(* each of which changes one widget and starts a run.                      *)
(***************************************************************************)

RECURSIVE MinDay(_)
MinDay(q) == IF Len(q) = 1 THEN RowDay(q[1]) ELSE Min(RowDay(q[1]), MinDay(Tail(q)))

\* lines 204-224: the three filters in turn; each select box is rendered with the
\* options of the rows the filters before it left
FilterDob(w, f2, dob) ==
    [kind |-> "frame", widgets |-> [w EXCEPT !.dob = dob], df_filter |-> DobFilter(f2, dob.value)]

FilterGender(w, f1, gender) ==
    FilterDob([w EXCEPT !.gender = gender], GenderFilter(f1, gender.value),
              Selectbox(w.dob, DobOptions(GenderFilter(f1, gender.value))))

FilterSite(w, df_sel, site) ==
    FilterGender([w EXCEPT !.site_name = site], SiteFilter(df_sel, site.value),
                 Selectbox(w.gender, GenderOptions(SiteFilter(df_sel, site.value))))

\* lines 195-202: the date inputs and the date-range filter
FilterDates(w, sorted, sd, ed) ==
    FilterSite([w EXCEPT !.start_date = sd, !.end_date = ed],
               DateFilter(sorted, sd.value, ed.value),
               Selectbox(w.site_name, SiteOptions(DateFilter(sorted, sd.value, ed.value))))

\* lines 150-231 with the widgets holding w: the widgets as rendered and df_filter,
\* or kind "none" when get_s3_metadata returned None
Sidebar(w, pbox, df) ==
    IF df.kind = "none"
    THEN [kind |-> "none", widgets |-> [UnrenderedWidgets EXCEPT !.prefix = pbox],
          df_filter |-> <<>>]
    ELSE FilterDates([w EXCEPT !.prefix = pbox],
                     sort_values(df.rows, w.sort_column, w.sort_order),
                     DateInput(w.start_date, MinDay(df.rows)),
                     DateInput(w.end_date, Today))

\* lines 241-275: the table branch
ShowTable(side, page, n_pages, newpage) ==
    /\ widgets' = side.widgets
    /\ view' = [branch |-> "table",
                count |-> Len(side.df_filter),
                n_pages |-> n_pages,
                label_page |-> page,
                slice_page |-> newpage,
                rows |-> PageSlice(side.df_filter, newpage, side.widgets.rows),
                download_links |-> side.df_filter]
    /\ page_number' = newpage
    /\ button_clicked' = FALSE
    \* lines 311-313: a handled click ends the run with st.rerun()
    /\ bpc' = IF newpage # page THEN "run" ELSE "idle"

\* lines 233-240 and 308-309
Paginate(side, page, click, n_pages) ==
    IF side.kind = "none"
    THEN \* 'No objects found.'; the widgets not rendered lose their values
         /\ widgets' = side.widgets
         /\ view' = [NoView EXCEPT !.branch = "no_objects"]
         /\ page_number' = page
         /\ button_clicked' = FALSE
         /\ bpc' = "idle"
    ELSE IF NoDataBranch(n_pages, Len(side.df_filter))
    THEN \* 'No data to display.'
         /\ widgets' = side.widgets
         /\ view' = [NoView EXCEPT !.branch = "no_data", !.n_pages = n_pages]
         /\ page_number' = page
         /\ button_clicked' = FALSE
         /\ bpc' = "idle"
    ELSE ShowTable(side, page, n_pages, AfterButtons(page, click, n_pages))

Render(side, page, click) ==
    Paginate(side, page, click, CountPages(Len(side.df_filter), side.widgets.rows))

RunWith(w, pbox, page, click) == Render(Sidebar(w, pbox, CatalogOf(pbox.value)), page, click)

\* Lines 143-313 with the widgets holding w, the session's page number being
\* page, and click the button pressed ("prev", "next" or "none").
Run(w, page, click) == RunWith(w, PrefixBox(w.prefix, FolderList(username)), page, click)

InitBrowse ==
    /\ username \in Usernames
    /\ widgets = UnrenderedWidgets
    /\ page_number = 1
    /\ button_clicked = FALSE
    /\ bpc = "run"
    /\ view = NoView
    /\ last_event = "none"
    /\ ExportIdle
    /\ CatalogIdle
    /\ SessionIdle

\* the first run of a session, and the run st.rerun() starts
ScriptRun ==
    /\ bpc = "run"
    /\ Run(widgets, page_number, "none")
    /\ UNCHANGED <<username, last_event>>
    /\ UNCHANGED <<exportVars, catalogVars, sessionVars>>

SidebarShown == view.branch \in {"table", "no_data"}

\* line 155: the Prefix select box has no on_change callback
UserSelectsPrefix(p) ==
    /\ bpc = "idle"
    /\ p # widgets.prefix.value
    /\ Run([widgets EXCEPT !.prefix.value = p], page_number, "none")
    /\ last_event' = "prefix"
    /\ UNCHANGED username
    /\ UNCHANGED <<exportVars, catalogVars, sessionVars>>

\* lines 180-182
UserSorts(column, order) ==
    /\ bpc = "idle"
    /\ SidebarShown
    /\ <<column, order>> # <<widgets.sort_column, widgets.sort_order>>
    /\ column = widgets.sort_column \/ order = widgets.sort_order
    /\ Run([widgets EXCEPT !.sort_column = column, !.sort_order = order], page_number, "none")
    /\ last_event' = "sort"
    /\ UNCHANGED username
    /\ UNCHANGED <<exportVars, catalogVars, sessionVars>>

\* line 195
UserPicksStart(day) ==
    /\ bpc = "idle"
    /\ SidebarShown
    /\ day # widgets.start_date.value
    /\ Run([widgets EXCEPT !.start_date.value = day], page_number, "none")
    /\ last_event' = "date"
    /\ UNCHANGED username
    /\ UNCHANGED <<exportVars, catalogVars, sessionVars>>

\* line 197
UserPicksEnd(day) ==
    /\ bpc = "idle"
    /\ SidebarShown
    /\ day # widgets.end_date.value
    /\ Run([widgets EXCEPT !.end_date.value = day], page_number, "none")
    /\ last_event' = "date"
    /\ UNCHANGED username
    /\ UNCHANGED <<exportVars, catalogVars, sessionVars>>

\* lines 206-207: the filters' on_change callback, run before the script
reset_page_number == 1

\* line 212
UserPicksSite(choice) ==
    /\ bpc = "idle"
    /\ SidebarShown
    /\ choice \in widgets.site_name.options \ {widgets.site_name.value}
    /\ Run([widgets EXCEPT !.site_name.value = choice], reset_page_number, "none")
    /\ last_event' = "filter"
    /\ UNCHANGED username
    /\ UNCHANGED <<exportVars, catalogVars, sessionVars>>

\* line 217
UserPicksGender(choice) ==
    /\ bpc = "idle"
    /\ SidebarShown
    /\ choice \in widgets.gender.options \ {widgets.gender.value}
    /\ Run([widgets EXCEPT !.gender.value = choice], reset_page_number, "none")
    /\ last_event' = "filter"
    /\ UNCHANGED username
    /\ UNCHANGED <<exportVars, catalogVars, sessionVars>>

\* line 222
UserPicksDob(choice) ==
    /\ bpc = "idle"
    /\ SidebarShown
    /\ choice \in widgets.dob.options \ {widgets.dob.value}
    /\ Run([widgets EXCEPT !.dob.value = choice], reset_page_number, "none")
    /\ last_event' = "filter"
    /\ UNCHANGED username
    /\ UNCHANGED <<exportVars, catalogVars, sessionVars>>

\* line 227: the slider's values
SliderValues == {n \in RowsMin..Min(RowsMax, MaxRowsPicked) : (n - RowsMin) % RowsStep = 0}

UserSlidesRows(n) ==
    /\ bpc = "idle"
    /\ SidebarShown
    /\ n # widgets.rows
    /\ Run([widgets EXCEPT !.rows = n], page_number, "none")
    /\ last_event' = "rows"
    /\ UNCHANGED username
    /\ UNCHANGED <<exportVars, catalogVars, sessionVars>>

\* lines 264 and 268: the page buttons, rendered in the table branch only
UserClicks(button) ==
    /\ bpc = "idle"
    /\ view.branch = "table"
    /\ Run(widgets, page_number, button)
    /\ last_event' = "button"
    /\ UNCHANGED username
    /\ UNCHANGED <<exportVars, catalogVars, sessionVars>>

Days == 1..Today

NextBrowse ==
    \/ ScriptRun
    \/ \E k \in 1..Len(widgets.prefix.options) : UserSelectsPrefix(widgets.prefix.options[k])
    \/ \E column \in {"LastModified", "DoB"}, order \in {"Descending", "Ascending"} :
          UserSorts(column, order)
    \/ \E day \in Days : UserPicksStart(day)
    \/ \E day \in Days : UserPicksEnd(day)
    \/ \E choice \in widgets.site_name.options : UserPicksSite(choice)
    \/ \E choice \in widgets.gender.options : UserPicksGender(choice)
    \/ \E choice \in widgets.dob.options : UserPicksDob(choice)
    \/ \E n \in SliderValues : UserSlidesRows(n)
    \/ \E button \in {"prev", "next"} : UserClicks(button)

SpecBrowse == InitBrowse /\ [][NextBrowse]_vars

(***************************************************************************)
(* Properties of the browser.                                              *)
(***************************************************************************)

\* C5: once a run has settled on a table of at least one matching record, the
\* page number that slices the table and the one in its 'Page (p/n)' label
\* both lie in 1..n_pages, whatever the user did before.
C5_PageInRange ==
    (bpc = "idle" /\ view.branch = "table" /\ view.count >= 1)
        => /\ view.slice_page \in 1..view.n_pages
           /\ view.label_page \in 1..view.n_pages

\* C6: after the user changed the prefix or one of the SiteName, Gender and DoB
\* filters, the session's page_number is 1 when the run that follows is done.
C6_ResetOnChange == last_event \in {"prefix", "filter"} => page_number = 1

\* C7: when no record matches the filters, the run counts one page and renders
\* 'No data to display.', not the table branch with its export and page controls.
C7_NoDataState ==
    (bpc = "idle" /\ SidebarShown /\ view.count = 0)
        => /\ view.n_pages = 1
           /\ view.branch = "no_data"

(***************************************************************************)
(* main's build-and-render cycle: get_s3_metadata for the selected prefix, *)
(* then what main shows of its result.                                     *)
(***************************************************************************)

\* image_browser.py lines 164-174 and 308-309, after the build.  An exception
\* raised in get_s3_metadata leaves main; None gives 'No objects found.'; a frame
\* built from no rows has no columns, so df['LastModified'] (line 171) raises
\* KeyError; otherwise the first page of the table is shown with the widgets'
\* defaults (rows numbered by the index of line 230).
RenderListing ==
    /\ bpc = "off"
    /\ cpc \in {"returned", "raised"}
    /\ IF cpc = "raised"
       THEN /\ bpc' = "raised"
            /\ view' = [NoView EXCEPT !.branch = "exception"]
       ELSE IF catalog.kind = "none"
       THEN /\ bpc' = "idle"
            /\ view' = [NoView EXCEPT !.branch = "no_objects"]
       ELSE IF catalog.rows = <<>>
       THEN /\ bpc' = "raised"
            /\ view' = [NoView EXCEPT !.branch = "exception"]
       ELSE /\ bpc' = "idle"
            /\ view' = [branch |-> "table",
                        count |-> Len(catalog.rows),
                        n_pages |-> CountPages(Len(catalog.rows), RowsMin),
                        label_page |-> page_number,
                        slice_page |-> page_number,
                        rows |-> PageSlice(Ascending(1, Len(catalog.rows)), page_number, RowsMin),
                        download_links |-> Ascending(1, Len(catalog.rows))]
    /\ UNCHANGED <<username, widgets, page_number, button_clicked, last_event>>
    /\ UNCHANGED <<exportVars, catalogVars, sessionVars>>

NextCycle ==
    \/ NextCatalog
    \/ RenderListing

SpecCycle == InitCatalog /\ [][NextCycle]_vars

\* The cycle is over: main showed something or an exception left it.
CycleDone == bpc \in {"idle", "raised"}

\* No object is malformed and no thumbnail or link derivation fails.
CleanObjects == preview_bad = NoKey /\ sign_bad = NoKey /\ \A k \in objects : ~Malformed(k)

\* C11: whatever the listing's outcome, the cycle ends without an exception;
\* 'No objects found.' is shown exactly when the listing failed or had no
\* contents, and a listing of objects none of which is an image ends in the
\* no-data state.
C11_ListingOutcomes ==
    (CycleDone /\ CleanObjects) =>
        /\ bpc = "idle"
        /\ view.branch = "no_objects" <=> (list_fails \/ objects = {})
        /\ (~list_fails /\ objects # {} /\ ImageObjects = {}) => view.branch = "no_data"

(***************************************************************************)
(* One browser session of the multipage app: app.py and pages/report.py    *)
(* run as scripts, the authenticator supplies the identity, and            *)
(* st.session_state outlives logins and logouts.                           *)
(***************************************************************************)

\* app.py lines 11-12: the users st.secrets["credentials"] holds
Credentials == Usernames \cup {<<"p", "a", "r", "k">>, <<"l", "a", "b", "g", "u", "e", "s", "t">>}

InSeq(x, q) == \E k \in 1..Len(q) : q[k] = x

\* report.py line 54: st.selectbox("Prefix", folder_list, ..., index=...); the box
\* keeps its value while it is rendered with the same options and index
ReportBox(w, folders, default) ==
    IF w.options = folders /\ w.default = default THEN w
    ELSE [options |-> folders, default |-> default, value |-> default]

\* report.py lines 71-79 with the box rendered: a prefix that differs from the
\* remembered one is stored and the script rerun; otherwise get_s3_metadata is
\* called with fetch_preview=False, a keyword image_browser.get_s3_metadata
\* (imported at line 4) does not take, so the call raises TypeError.
ReportLoad(user, box, sp) ==
    /\ report_box' = box
    /\ IF sp # box.value
       THEN /\ session_prefix' = box.value
            /\ called' = NoCall
            /\ bpc' = "run"
       ELSE /\ session_prefix' = sp
            /\ called' = [user |-> user, prefix |-> box.value]
            /\ bpc' = "raised"

\* report.py lines 48-54: the remembered prefix is looked up in the folder list;
\* folder_list.index raises ValueError when it is not there
ReportSidebar(user, w, sp, folders, default) ==
    IF ~InSeq(default, folders)
    THEN /\ report_box' = UnrenderedBox
         /\ session_prefix' = sp
         /\ called' = NoCall
         /\ bpc' = "raised"
    ELSE ReportLoad(user, ReportBox(w, folders, default), sp)

ReportFolders(user, w, sp, folders) ==
    ReportSidebar(user, w, sp, folders, IF sp # None THEN sp ELSE folders[1])

\* report.py lines 27-79
statistics_page(user, w, sp) == ReportFolders(user, w, sp, FolderList(user))

\* One run of the session's script for the identity the authenticator returns.
\* Without an identity both scripts show the login form and a warning.  app.py
\* line 45 calls image_browser() without the username main requires: TypeError.
Script(user, pg, w, sp) ==
    IF user = NoUser
    THEN /\ report_box' = UnrenderedBox
         /\ session_prefix' = sp
         /\ called' = NoCall
         /\ bpc' = "idle"
    ELSE IF pg = "app"
    THEN /\ report_box' = UnrenderedBox
         /\ session_prefix' = sp
         /\ called' = NoCall
         /\ bpc' = "raised"
    ELSE statistics_page(user, w, sp)

\* app.py lines 33-40 and report.py lines 22-25: a new browser session
InitSession ==
    /\ username = NoUser
    /\ widgets = UnrenderedWidgets
    /\ page_number = 1
    /\ button_clicked = FALSE
    /\ bpc = "run"
    /\ view = NoView
    /\ last_event = "none"
    /\ page_script \in {"app", "report"}
    /\ session_prefix = None
    /\ report_box = UnrenderedBox
    /\ called = NoCall
    /\ ExportIdle
    /\ CatalogIdle

\* the first run of the session, and the run st.rerun() starts
SessionRun ==
    /\ bpc = "run"
    /\ Script(username, page_script, report_box, session_prefix)
    /\ UNCHANGED <<username, widgets, page_number, button_clicked, view, last_event,
                   page_script>>
    /\ UNCHANGED <<exportVars, catalogVars>>

\* app.py line 19: authenticator.login accepts the credentials of user
Login(user) ==
    /\ bpc = "idle"
    /\ username = NoUser
    /\ username' = user
    /\ Script(user, page_script, report_box, session_prefix)
    /\ last_event' = "login"
    /\ UNCHANGED <<widgets, page_number, button_clicked, view, page_script>>
    /\ UNCHANGED <<exportVars, catalogVars>>

\* app.py lines 19-23: the authenticator ends the authentication and sets the
\* logout flag; login() then calls reset_session_state, which leaves
\* st.session_state.prefix as it is
Logout ==
    /\ bpc \in {"idle", "raised"}
    /\ username # NoUser
    /\ username' = NoUser
    /\ page_number' = 1
    /\ button_clicked' = FALSE
    /\ Script(NoUser, page_script, report_box, session_prefix)
    /\ last_event' = "logout"
    /\ UNCHANGED <<widgets, view, page_script>>
    /\ UNCHANGED <<exportVars, catalogVars>>

\* the user opens the other page of the app
Navigate(pg) ==
    /\ bpc \in {"idle", "raised"}
    /\ pg # page_script
    /\ page_script' = pg
    /\ Script(username, pg, UnrenderedBox, session_prefix)
    /\ last_event' = "navigate"
    /\ UNCHANGED <<username, widgets, page_number, button_clicked, view>>
    /\ UNCHANGED <<exportVars, catalogVars>>

\* report.py line 54: the user picks a prefix in the rendered box; the box's
\* on_change callback reset_session_state runs before the script
UserSelectsReportPrefix(p) ==
    /\ bpc = "raised"
    /\ page_script = "report"
    /\ username # NoUser
    /\ report_box # UnrenderedBox
    /\ InSeq(p, report_box.options)
    /\ p # report_box.value
    /\ page_number' = 1
    /\ button_clicked' = FALSE
    /\ statistics_page(username, [report_box EXCEPT !.value = p], session_prefix)
    /\ last_event' = "prefix"
    /\ UNCHANGED <<username, widgets, view, page_script>>
    /\ UNCHANGED <<exportVars, catalogVars>>

NextSession ==
    \/ SessionRun
    \/ \E user \in Credentials : Login(user)
    \/ Logout
    \/ \E pg \in {"app", "report"} : Navigate(pg)
    \/ \E k \in 1..Len(AllFolders) : UserSelectsReportPrefix(AllFolders[k])

SpecSession == InitSession /\ [][NextSession]_vars

IsGuest(user) == Contains(user, <<"g", "u", "e", "s", "t">>)

GuestAllowlist == {GuestFolder}

\* C12: whatever logins, logouts, page changes and prefix selections a session
\* went through, a get_s3_metadata call made for a guest identity is for a prefix
\* of the guest allowlist, and a run for a guest with a remembered prefix outside
\* the allowlist makes no call at all.
C12_GuestAllowlist ==
    /\ (called # NoCall /\ IsGuest(called.user)) => called.prefix \in GuestAllowlist
    /\ (IsGuest(username) /\ session_prefix \notin GuestAllowlist \cup {None} /\ bpc # "run")
          => called = NoCall

\* A guest is logged in on the report page while the session remembers a
\* prefix chosen under an earlier non-guest login, and the run is over.
C12_Witness ==
    /\ IsGuest(username)
    /\ page_script = "report"
    /\ session_prefix = "Study_B/"
    /\ last_event = "login"
    /\ bpc = "raised"

(***************************************************************************)
(* Both export modes: zip_files and zip_files_parallel.                    *)
(***************************************************************************)

InitExport == InitBulk \/ InitProg

NextExport ==
    \/ NextBulk
    \/ NextProg

SpecExport == InitExport /\ [][NextExport]_vars

\* The export is past its writestr of meta_table.csv.
MetaWritten ==
    zpc \in {"meta_close", "return", "returned", "close", "yield_archive", "exhausted"}

\* No image entry is still to be written: every task of the bulk export is
\* done, and the progressive export's loop has run through all links.
ImageWritesOver ==
    /\ \A i \in DOMAIN task : task[i].pc = "done"
    /\ zpc \in {"close", "yield_archive", "exhausted"} => idx = NLinks

MetaSlots(buf) == {k \in 1..Len(buf) : buf[k].kind = "entry" /\ buf[k].name = MetaName}

ImageSlots(buf) == {k \in 1..Len(buf) : buf[k].kind = "entry" /\ buf[k].name # MetaName}

\* C13: in both export modes the summary entry meta_table.csv is written only
\* when no image entry is still to be written, it lies behind every image
\* entry in the buffer, and it is the last entry the finished archive lists.
C13_SummaryLast ==
    /\ MetaWritten =>
          /\ ImageWritesOver
          /\ Cardinality(MetaSlots(zip_buffer)) = 1
          /\ \A m \in MetaSlots(zip_buffer), k \in ImageSlots(zip_buffer) : k < m
    /\ result # NoArchive =>
          /\ Len(ArchiveList(result)) >= 1
          /\ ArchiveNames(result)[Len(ArchiveList(result))] = MetaName
          /\ \A k \in 1..(Len(ArchiveList(result)) - 1) : ArchiveNames(result)[k] # MetaName

\* The bulk export of several links returned an archive of several entries.
C13_Witness ==
    /\ zpc = "returned"
    /\ NLinks >= 2
    /\ Len(ArchiveList(result)) >= 3

(***************************************************************************)
(* The view pipeline as a function of the catalog and the view state.      *)
(* df.sort_values is called with its default kind, 'quicksort', which does *)
(* not say in which order rows of equal key come out (numpy sorts up to 16 *)
(* elements by insertion and larger arrays with an unstable partitioning   *)
(* or vectorised sort); the rows of a catalog here stand for rows of a     *)
(* catalog of any size, so every order of equal keys is a possible result. *)
(***************************************************************************)

\* The most rows of a catalog the pipeline is applied to.
MaxCatalog == 3

PipelineRows == {1, 2, 4, 6, 11, 12}

RECURSIVE AscendingOf(_)
AscendingOf(S) ==
    IF S = {} THEN <<>>
    ELSE LET lo == CHOOSE i \in S : \A j \in S : i <= j
         IN <<lo>> \o AscendingOf(S \ {lo})

\* get_s3_metadata's frames: rows in listing order
PipelineCatalogs ==
    {AscendingOf(S) : S \in {T \in SUBSET PipelineRows : Cardinality(T) \in 1..MaxCatalog}}

Range(q) == {q[k] : k \in 1..Len(q)}

Orderings(q) == {p \in [1..Len(q) -> Range(q)] : Range(p) = Range(q)}

\* lines 185-189 with kind='quicksort': the rows in the order of their keys,
\* rows of equal key in any order
quicksort_values(q, column, order) ==
    {p \in Orderings(q) :
        \A k \in 1..(Len(p) - 1) :
            IF order = "Ascending"
            THEN SortKey(column, p[k]) <= SortKey(column, p[k + 1])
            ELSE SortKey(column, p[k]) >= SortKey(column, p[k + 1])}

InitPipeline ==
    /\ username = <<"k", "i", "m">>
    /\ \E column \in {"LastModified", "DoB"}, order \in {"Descending", "Ascending"},
          start \in Days, end \in Days :
          widgets = [UnrenderedWidgets EXCEPT !.sort_column = column, !.sort_order = order,
                                              !.start_date.value = start,
                                              !.end_date.value = end]
    /\ page_number \in 1..2
    /\ button_clicked = FALSE
    /\ bpc = "run"
    /\ view = NoView
    /\ last_event = "none"
    /\ objects = {}
    /\ list_fails = FALSE
    /\ preview_bad = NoKey
    /\ sign_bad = NoKey
    /\ cpc = "returned"
    /\ contents = <<>>
    /\ cidx = 0
    /\ preview = NoPreview
    /\ download_link = NoLink
    /\ data = <<>>
    /\ catalog \in {[kind |-> "frame", rows |-> q] : q \in PipelineCatalogs}
    /\ fetch_preview = TRUE
    /\ ExportIdle
    /\ SessionIdle

\* lines 226-275: count the pages and slice
PipeShow(w, df_filter) ==
    /\ widgets' = w
    /\ view' = [branch |-> "table",
                count |-> Len(df_filter),
                n_pages |-> CountPages(Len(df_filter), w.rows),
                label_page |-> page_number,
                slice_page |-> page_number,
                rows |-> PageSlice(df_filter, page_number, w.rows),
                download_links |-> df_filter]
    /\ bpc' = "idle"

\* lines 220-224, the user's choice being any of the box's options
PipeDob(w, f2) ==
    \E choice \in DobOptions(f2) :
        PipeShow([w EXCEPT !.dob = [options |-> DobOptions(f2), value |-> choice]],
                 DobFilter(f2, choice))

\* lines 215-219
PipeGender(w, f1) ==
    \E choice \in GenderOptions(f1) :
        PipeDob([w EXCEPT !.gender = [options |-> GenderOptions(f1), value |-> choice]],
                GenderFilter(f1, choice))

\* lines 210-214
PipeSite(w, df_sel) ==
    \E choice \in SiteOptions(df_sel) :
        PipeGender([w EXCEPT !.site_name = [options |-> SiteOptions(df_sel), value |-> choice]],
                   SiteFilter(df_sel, choice))

\* lines 176-275 for one catalog and view state: sort, date range, filters, slice
PipelineRun ==
    /\ bpc = "run"
    /\ \E sorted \in quicksort_values(catalog.rows, widgets.sort_column, widgets.sort_order) :
          PipeSite(widgets, DateFilter(sorted, widgets.start_date.value, widgets.end_date.value))
    /\ UNCHANGED <<username, page_number, button_clicked, last_event>>
    /\ UNCHANGED <<exportVars, catalogVars, sessionVars>>

NextPipeline == PipelineRun

SpecPipeline == InitPipeline /\ [][NextPipeline]_vars

\* The reference pipeline: date range, then the SiteName, Gender and DoB filters,
\* then a stable sort (ties in the catalog's order), then the page slice.
ReferenceFiltered ==
    DobFilter(GenderFilter(SiteFilter(DateFilter(catalog.rows, widgets.start_date.value,
                                                 widgets.end_date.value),
                                      widgets.site_name.value),
                           widgets.gender.value),
              widgets.dob.value)

ReferenceRows ==
    PageSlice(sort_values(ReferenceFiltered, widgets.sort_column, widgets.sort_order),
              page_number, widgets.rows)

\* each filter's options: the sentinel and the values among the survivors of the
\* filters before it
ReferenceOptions ==
    LET r1 == DateFilter(catalog.rows, widgets.start_date.value, widgets.end_date.value)
        r2 == SiteFilter(r1, widgets.site_name.value)
        r3 == GenderFilter(r2, widgets.gender.value)
    IN <<SiteOptions(r1), GenderOptions(r2), DobOptions(r3)>>

\* C14: for every catalog and view state the rows the browser shows, and the
\* options its filters offer, are those of the reference pipeline (filters
\* first, then the sort, then the page slice).
C14_SameAsReference ==
    (bpc = "idle" /\ view.branch = "table") =>
        /\ view.rows = ReferenceRows
        /\ <<widgets.site_name.options, widgets.gender.options, widgets.dob.options>>
              = ReferenceOptions

\* The FileName column of the meta_table.csv entry a reader finds in the blob
\* (no rows if the entry is missing or cannot be read).
CsvFileNames(blob) ==
    LET hits == {k \in 1..Len(ArchiveList(blob)) : ArchiveNames(blob)[k] = MetaName}
    IN IF hits = {} THEN <<>>
       ELSE LET k == CHOOSE k \in hits : TRUE
            IN IF ArchiveRead(blob, k).kind = "csv" THEN ArchiveRead(blob, k).rows ELSE <<>>

\* C15: in a finished archive of N rows, row i of meta_table.csv has FileName
\* image_{i:04d}<ext>, and the entry images/<that name> is in the archive and
\* holds the bytes fetched from row i's own link.
C15_RowsMatchEntries ==
    result # NoArchive =>
        /\ Len(CsvFileNames(result)) = NLinks
        /\ \A i \in 1..NLinks :
              /\ CsvFileNames(result)[i]
                    = "image_" \o Str(Fmt04d(i)) \o Str(get_image_ext(UrlText[download_links[i]]))
              /\ \E k \in 1..Len(ArchiveList(result)) :
                    /\ ArchiveNames(result)[k] = "images" \o "/" \o CsvFileNames(result)[i]
                    /\ ArchiveRead(result, k) = download_data(download_links[i])

====
